---- MODULE Spec2Model ----
(***************************************************************************)
(* Model of the modular automation engine of yys-automation:               *)
(*   modules/core.py              DeviceManager, ImageProcessor,           *)
(*                                InputController                          *)
(*   modules/automation_engine.py AutomationModule, DeviceThread,          *)
(*                                AutomationEngine                         *)
(*   modules/yuhun_module.py      YuhunModule.run_once                     *)
(*   modules/baigui_module.py     BaiguiModule.run_once                    *)
(*                                                                         *)
(* Time is a global integer clock (one unit = one second).  Every blocking *)
(* call (time.sleep, the adb subprocess) sets the caller's wake time; the  *)
(* clock advances only when every live thread is blocked.  A sleep shorter *)
(* than one unit (0.1 s, 0.2 s) takes no unit.                            *)
(***************************************************************************)
EXTENDS Integers, Sequences, FiniteSets, TLC

VARIABLES
    cfg,                     \* what the operator selected and settings.json holds
    detected,                \* one detect_all_buttons call: arguments and result
    screen_png,              \* the local file "screen.png": one per process
    now,                     \* time.time() / datetime.now()
    stop_event,              \* AutomationEngine.stop_event
    pause_events,            \* AutomationEngine.pause_events[device_id]
    active_device,           \* DeviceManager.active_device (one manager, shared)
    last_device_switch_time, \* DeviceManager.last_device_switch_time
    co,                      \* AutomationEngine.run: the coordinator's position
    th                       \* one DeviceThread + module instance per device

vars == <<cfg, detected, screen_png, now, stop_event, pause_events, active_device,
          last_device_switch_time, co, th>>

----------------------------------------------------------------------------
(* Bounds of the model *)

\* run_duration the operator types in, in clock units
RunDuration == 2

(* Program constants *)

max_single_run_time == 5
switch_interval == 30
notupo_window == 1
max_consecutive_errors == 5
default_threshold == 80
default_priority == 0

\* match scores, in hundredths: one below and one above every threshold
Scores == {0, 90}

NoDevice == "none"
NoButton == "none"

\* DeviceManager.devices after list_devices(): two emulators answer
devices == <<"emu1", "emu2">>
DeviceIds == {devices[i] : i \in 1..Len(devices)}

Controls == {"lose", "notupo", "button1", "button2", "button3", "button4",
             "button5", "button7", "button10"}

SeqToSet(s) == {s[i] : i \in 1..Len(s)}

----------------------------------------------------------------------------
(* Configuration: module, its template_sets, priorities, selected devices *)

Prio(p4, p5) ==
    [c \in Controls |->
        CASE c = "button4" -> p4
          [] c = "button5" -> p5
          [] OTHER -> default_priority]

\* no "threshold" entry for a template: find_template falls back to 0.8
DefaultThresholds == [c \in Controls |-> default_threshold]

\* template_sets, priority and threshold are what settings.json holds; missing
\* is the set of templates without an image file; special_buttons is the set
\* of controls with a special_buttons entry holding delay_after; on_screen is the
\* set of controls the game shows at all during the run; capture tells whether
\* adb screencap can fail or be slow during the run
Configs ==
    { [module |-> "yuhun", template_sets |-> <<"button4", "button5">>,
       priority |-> Prio(2, 1), on_screen |-> {"lose", "button4", "button5"},
       threshold |-> DefaultThresholds, missing |-> {},
       special_buttons |-> {},
       capture |-> "flaky", selected_devices |-> <<"emu1">>],
      [module |-> "yuhun", template_sets |-> <<"button7", "button10">>,
       priority |-> Prio(0, 0),
       on_screen |-> {"lose", "notupo", "button7", "button10"},
       threshold |-> DefaultThresholds, missing |-> {},
       special_buttons |-> {"button10"},
       capture |-> "flaky", selected_devices |-> <<"emu1">>],
      [module |-> "baigui", template_sets |-> <<"button1", "button2", "button3">>,
       priority |-> Prio(0, 0),
       on_screen |-> {"lose", "button1", "button2", "button3"},
       threshold |-> DefaultThresholds, missing |-> {},
       special_buttons |-> {},
       capture |-> "flaky", selected_devices |-> <<"emu1">>],
      [module |-> "yuhun", template_sets |-> <<"button10">>,
       priority |-> Prio(0, 0), on_screen |-> {"button10"},
       threshold |-> DefaultThresholds, missing |-> {},
       special_buttons |-> {},
       capture |-> "steady", selected_devices |-> <<"emu1", "emu2">>] }

Selected == SeqToSet(cfg.selected_devices)

\* get_screen() can return None in this run
CaptureMayFail == cfg.capture = "flaky"

\* a frame: the best match score of every control's template on it
Frames ==
    {f \in [Controls -> Scores] :
        \A c \in Controls \ cfg.on_screen : f[c] = 0}

BlankFrame == [c \in Controls |-> 0]

\* no screenshot pulled yet
NoFile == [by |-> NoDevice, frame |-> BlankFrame]

NoCall ==
    [screen |-> BlankFrame, template_names |-> <<>>, buttons |-> <<>>,
     returned |-> FALSE]

----------------------------------------------------------------------------
(* ImageProcessor *)

\* a load_template that returns an image whether or not the file exists
AssetAlwaysLoads(name) == TRUE

\* load_template: None when the image file does not exist
load_template(name) == name \notin cfg.missing

threshold(name) == cfg.threshold[name]

\* a find_template that reports a position on every frame
AlwaysFound(name, screen) == TRUE

\* find_template: None without a template, else a position when the best
\* score reaches the threshold
find_template(name, screen) ==
    /\ load_template(name)
    /\ screen[name] >= threshold(name)

\* list.sort(key=priority) is stable: insert after the last entry that is
\* not of lower precedence
RECURSIVE InsertByPriority(_, _)
InsertByPriority(sorted, x) ==
    IF sorted = <<>> THEN <<x>>
    ELSE IF x.priority < Head(sorted).priority THEN <<x>> \o sorted
    ELSE <<Head(sorted)>> \o InsertByPriority(Tail(sorted), x)

\* a sort that leaves the list as it is
Unsorted(results) == results

RECURSIVE SortByPriority(_)
SortByPriority(results) ==
    IF results = <<>> THEN <<>>
    ELSE InsertByPriority(SortByPriority(SubSeq(results, 1, Len(results) - 1)),
                          results[Len(results)])

RECURSIVE FoundButtons(_, _)
FoundButtons(screen, template_names) ==
    IF template_names = <<>> THEN <<>>
    ELSE LET name == Head(template_names)
             rest == FoundButtons(screen, Tail(template_names))
         IN  IF find_template(name, screen)
             THEN <<[name |-> name, score |-> screen[name],
                     priority |-> cfg.priority[name]]>> \o rest
             ELSE rest

detect_all_buttons(screen, template_names) ==
    SortByPriority(FoundButtons(screen, template_names))

----------------------------------------------------------------------------
(* DeviceManager *)

should_switch_device ==
    /\ Len(devices) > 1
    /\ now - last_device_switch_time >= switch_interval

\* variant: a switch that stays on the active device
StayOnDevice(devs, active) == active

\* switch_device on the device list devs with the given active device:
\* current_index is the place of the active device, 0 if it is not listed
switch_device(devs, active) ==
    IF Len(devs) <= 1 THEN active
    ELSE LET current_index ==
                 IF \E i \in 1..Len(devs) : devs[i] = active
                 THEN (CHOOSE i \in 1..Len(devs) : devs[i] = active) - 1
                 ELSE 0
             next_index == (current_index + 1) % Len(devs)
         IN  devs[next_index + 1]

\* the active device after switch_device()
NextDevice == switch_device(devices, active_device)

\* run_once: if should_switch_device(): switch_device()
TimerSwitch ==
    IF should_switch_device
    THEN /\ active_device' = NextDevice
         /\ last_device_switch_time' = now
    ELSE UNCHANGED <<active_device, last_device_switch_time>>

----------------------------------------------------------------------------
(* Session record *)

\* no exploratory tap made
NoPoint == <<>>

IdleThread ==
    [pc |-> "unstarted", wake |-> 0, start_time |-> 0, end_time |-> 0,
     tick_start |-> 0,
     check_notupo_after_button10 |-> FALSE, last_button10_click_time |-> 0,
     last_button_clicked |-> NoButton, consecutive_errors |-> 0,
     screen |-> BlankFrame, target |-> NoButton, prereq |-> FALSE,
     \* of the current run_once call: taps delivered and the first of them,
     \* the stop signal as the call began; and a fault just caught
     delivered |-> 0, first_delivered |-> NoButton, stop_at_call |-> FALSE,
     fault |-> FALSE,
     \* get_screen() results of None in a row (YuhunModule keeps no such count)
     capture_failures |-> 0,
     \* what initialize() returned, calls of cleanup(), the run-time log line
     initialized |-> FALSE, cleanups |-> 0, run_time_logged |-> FALSE,
     \* where the exploratory tap of the current run_once call landed
     tap_at |-> NoPoint]

Ready(d) == th[d].wake <= now

\* a wake time that has passed is forgotten
Awake(r) == IF r.wake <= now THEN [r EXCEPT !.wake = 0] ELSE r

Set(d, r) == th' = [th EXCEPT ![d] = Awake([r EXCEPT !.fault = FALSE])]

\* the frame is a local of one loop iteration
Forget(r) == [r EXCEPT !.screen = BlankFrame]

\* the step of an except clause
SetFault(d, r) == th' = [th EXCEPT ![d] = Awake([r EXCEPT !.fault = TRUE])]

\* the adb screencap + pull round trip: under a clock unit on a steady
\* connection, up to one unit on a flaky one; subprocess.run is given no
\* timeout, so on a slow connection it takes seconds
CaptureTime ==
    IF cfg.capture = "slow" THEN {0, 3, 4, 6}
    ELSE IF CaptureMayFail THEN {0, 1} ELSE {0}

\* InputController.random_delay: uniform(0.5, 1.0)
ClickDelay == {1}
\* click_button's special delay: min + random() * (max - min) of delay_after
DelayAfter == {1, 2}

\* click_button lines 61-72: the delay that follows a delivered tap
ClickDelayOf(button_name) ==
    IF button_name \in cfg.special_buttons THEN DelayAfter ELSE ClickDelay
\* YuhunModule: random.uniform(0.5, 1.5) before button7
Button7Wait == {1, 2}
\* BaiguiModule: random.uniform(1, 2) after button2
Button2Wait == {1, 2}

\* variant: a delivered tap that leaves last_button_clicked as it was
TapNotRecorded(r) ==
    [r EXCEPT !.delivered = @ + 1,
              !.first_delivered = IF @ = NoButton THEN r.target ELSE @]

\* a tap delivered to the device through click_button
Delivered(r) ==
    [r EXCEPT !.last_button_clicked = r.target,
              !.delivered = @ + 1,
              !.first_delivered = IF @ = NoButton THEN r.target ELSE @]

----------------------------------------------------------------------------
(* DeviceThread.run *)

\* variant: the result of initialize() is not looked at
InitializeResultIgnored(ok) == "loop"

\* lines 132-134: a module that fails to initialize ends the thread
AfterInitialize(ok) == IF ok THEN "loop" ELSE "finally"

\* lines 123-134: start_time, end_time, initialize(); the shipped modules
\* return True, AutomationModule's contract allows False
ThreadInit(d) ==
    /\ th[d].pc = "init" /\ Ready(d)
    /\ \E ok \in BOOLEAN :
         Set(d, [th[d] EXCEPT !.start_time = now, !.end_time = now + RunDuration,
                              !.initialized = ok, !.pc = AfterInitialize(ok)])
    /\ UNCHANGED <<cfg, detected, screen_png, now, stop_event, pause_events, active_device,
                   last_device_switch_time, co>>

\* run_once has returned: its locals and what was noted of the call are gone
Returned(r) ==
    [r EXCEPT !.tick_start = 0, !.screen = BlankFrame, !.target = NoButton,
              !.prereq = FALSE, !.delivered = 0, !.first_delivered = NoButton,
              !.stop_at_call = FALSE, !.tap_at = NoPoint]

\* lines 136-142: the loop condition and the deadline check
ThreadLoop(d) ==
    /\ th[d].pc = "loop" /\ Ready(d)
    /\ IF stop_event
       THEN /\ Set(d, [Returned(th[d]) EXCEPT !.pc = "finally"])
            /\ UNCHANGED stop_event
       ELSE IF now >= th[d].end_time
       THEN /\ stop_event' = TRUE
            /\ Set(d, [Returned(th[d]) EXCEPT !.pc = "finally"])
       ELSE /\ Set(d, [Returned(th[d]) EXCEPT !.pc = "pause_check"])
            /\ UNCHANGED stop_event
    /\ UNCHANGED <<cfg, detected, screen_png, now, pause_events, active_device,
                   last_device_switch_time, co>>

\* what the except clause of lines 166-168 does to the thread
ThreadOnFault(r) ==
    [r EXCEPT !.pc = "loop", !.wake = now + 1]

\* variant: a paused thread only waits for its pause signal to clear
PauseHoldsThread(r) == "pause_check"

\* lines 149-151: a paused thread sleeps and goes back to the loop condition
\* and the deadline check
AfterPause(r) == "loop"

\* the pause test of line 149
ThreadPaused(d) == pause_events[d]

\* lines 148-159: the pause check, then the call of run_once (whose first
\* statements, the budget and start_time, run before its own try)
ThreadPauseCheck(d) ==
    /\ th[d].pc = "pause_check" /\ Ready(d)
    /\ IF ThreadPaused(d)
       THEN Set(d, [th[d] EXCEPT !.pc = AfterPause(th[d]), !.wake = now + 1])
       ELSE \E fault \in BOOLEAN :
              LET r == [th[d] EXCEPT !.tick_start = now,
                                     !.stop_at_call = stop_event]
              IN  IF fault
                  THEN SetFault(d, ThreadOnFault(r))
                  ELSE Set(d, [r EXCEPT !.pc = IF cfg.module = "yuhun"
                                               THEN "y_top" ELSE "b_top"])
    /\ UNCHANGED <<cfg, detected, screen_png, now, stop_event, pause_events, active_device,
                   last_device_switch_time, co>>

\* lines 136-146, 169-170: an exception raised by the statements at the top
\* of the loop, outside the try around run_once, is caught by the outer
\* except clause
ThreadEscape(d) ==
    /\ th[d].pc = "loop" /\ Ready(d)
    /\ Set(d, [Returned(th[d]) EXCEPT !.pc = "finally"])
    /\ UNCHANGED <<cfg, detected, screen_png, now, stop_event, pause_events, active_device,
                   last_device_switch_time, co>>

\* variant: a thread that ends without its finally clause
FinallySkipped(d) ==
    /\ th[d].pc = "finally" /\ Ready(d)
    /\ Set(d, [th[d] EXCEPT !.pc = "done"])
    /\ UNCHANGED <<cfg, detected, screen_png, now, stop_event, pause_events, active_device,
                   last_device_switch_time, co>>

\* lines 172-181: cleanup() and the run-time log
ThreadFinally(d) ==
    /\ th[d].pc = "finally" /\ Ready(d)
    /\ Set(d, [th[d] EXCEPT !.pc = "done", !.cleanups = @ + 1,
                            !.run_time_logged = TRUE])
    /\ UNCHANGED <<cfg, detected, screen_png, now, stop_event, pause_events, active_device,
                   last_device_switch_time, co>>

----------------------------------------------------------------------------
(* YuhunModule.run_once *)

\* variant: a fault that ends the session
FaultEndsSession(r) == [r EXCEPT !.pc = "finally"]

\* the except clause of lines 145-147: log, sleep(1), next loop iteration
YuhunOnFault(r) ==
    [Forget(r) EXCEPT !.pc = "y_top", !.wake = now + 1]

\* variant: run_once without its pause test
PauseIgnored(d) == FALSE

\* the pause test of line 63
YuhunPaused(d) == pause_events[d]

\* the loop condition of line 56
YuhunStopped == stop_event

\* lines 56-76: loop condition, tick budget, pause check, the timer-driven
\* device switch, then get_screen() of the manager's active device up to the
\* adb pull that writes the frame into "screen.png"
YuhunTop(d) ==
    /\ th[d].pc = "y_top" /\ Ready(d)
    /\ IF YuhunStopped \/ now - th[d].tick_start > max_single_run_time
       THEN /\ Set(d, [th[d] EXCEPT !.pc = "loop"])
            /\ UNCHANGED <<active_device, last_device_switch_time, screen_png>>
       ELSE IF YuhunPaused(d)
       THEN /\ Set(d, [th[d] EXCEPT !.pc = "loop", !.wake = now + 1])
            /\ UNCHANGED <<active_device, last_device_switch_time, screen_png>>
       ELSE /\ TimerSwitch
            /\ \/ /\ CaptureMayFail
                  /\ Set(d, [th[d] EXCEPT !.pc = "y_top", !.wake = now + 1,
                                          !.capture_failures = @ + 1])
                  /\ UNCHANGED screen_png
               \/ \E f \in Frames :
                    /\ screen_png' = [by |-> d, frame |-> f]
                    /\ Set(d, [th[d] EXCEPT !.pc = "y_read"])
    /\ UNCHANGED <<cfg, detected, now, stop_event, pause_events, co>>

\* core.py line 271: cv2.imread("screen.png") gives get_screen() its result
YuhunRead(d) ==
    /\ th[d].pc = "y_read" /\ Ready(d)
    /\ \E t \in CaptureTime :
         Set(d, [th[d] EXCEPT !.pc = "y_decide", !.wake = now + t,
                              !.screen = screen_png.frame,
                              !.capture_failures = 0])
    /\ UNCHANGED <<cfg, detected, screen_png, now, stop_event, pause_events,
                   active_device, last_device_switch_time, co>>

\* line 79-80: the terminal control
YuhunLose(screen) == find_template("lose", screen)

\* variant: a gate whose validity window is over at once
GateAlwaysElapsed(d) == TRUE

\* line 93: the gate's validity window has elapsed
YuhunGateElapsed(d) == now - th[d].last_button10_click_time > notupo_window

\* variant: no sequencing rule between button4 and button5
NoSequencing(button_name, last_clicked) == FALSE

\* line 109: button5 must follow button4
YuhunNeedsButton4(button_name, last_clicked) ==
    button_name = "button5" /\ last_clicked # "button4"

\* lines 99-140 up to the tap: the candidate list and the control to tap
YuhunSelect(d, r) ==
    LET buttons == detect_all_buttons(r.screen, cfg.template_sets)
    IN  IF buttons = <<>>
        THEN Set(d, [Forget(r) EXCEPT !.pc = "y_top"])
        ELSE LET button_name == buttons[1].name IN
             IF /\ YuhunNeedsButton4(button_name, r.last_button_clicked)
                /\ find_template("button4", r.screen)
             THEN Set(d, [r EXCEPT !.pc = "y_tap", !.target = "button4",
                                   !.prereq = TRUE])
             ELSE IF button_name = "button7"
             THEN \E wait_time \in Button7Wait :
                    IF now - r.tick_start + wait_time > max_single_run_time
                    THEN Set(d, [r EXCEPT !.pc = "loop"])
                    ELSE Set(d, [r EXCEPT !.pc = "y_tap", !.target = button_name,
                                          !.prereq = FALSE,
                                          !.wake = now + wait_time])
             ELSE Set(d, [r EXCEPT !.pc = "y_tap", !.target = button_name,
                                   !.prereq = FALSE])

\* variant: a detection that pauses every session
PauseAll(d) == [e \in DeviceIds |-> TRUE]

\* lines 81 and 89: self.pause_event.set(), the event of the session's device
PauseOwn(d) == [pause_events EXCEPT ![d] = TRUE]

\* lines 78-143 on one frame: lose, the notupo gate, then the candidates
YuhunDecide(d) ==
    /\ th[d].pc = "y_decide" /\ Ready(d)
    /\ \/ /\ SetFault(d, YuhunOnFault(th[d]))
          /\ UNCHANGED pause_events
       \/ IF YuhunLose(th[d].screen)
          THEN /\ pause_events' = PauseOwn(d)
               /\ Set(d, [th[d] EXCEPT !.pc = "loop"])
          ELSE IF th[d].check_notupo_after_button10
          THEN IF find_template("notupo", th[d].screen)
               THEN /\ pause_events' = PauseOwn(d)
                    /\ Set(d, [th[d] EXCEPT !.pc = "loop"])
               ELSE IF YuhunGateElapsed(d)
               THEN /\ YuhunSelect(d, [th[d] EXCEPT
                                         !.check_notupo_after_button10 = FALSE])
                    /\ UNCHANGED pause_events
               ELSE /\ Set(d, [Forget(th[d]) EXCEPT !.pc = "y_top"])
                    /\ UNCHANGED pause_events
          ELSE /\ YuhunSelect(d, th[d])
               /\ UNCHANGED pause_events
    /\ UNCHANGED <<cfg, detected, screen_png, now, stop_event, active_device,
                   last_device_switch_time, co>>

\* variant: no delivered tap ends the call
TapNeverReturns(r) == FALSE

\* lines 116-140: a delivered tap ends the call, except the prerequisite
\* button4 tap, which is followed by continue
YuhunTapReturns(r) == ~r.prereq

\* variant: no tap arms the gate
NeverArmsGate(button_name) == FALSE

\* lines 119-122: a delivered button10 tap arms the notupo gate
YuhunArmsGate(button_name) == button_name = "button10"

\* click_button (automation_engine.py 54-74) as called from lines 115-140:
\* the tap goes to the manager's active device; when it is delivered the name
\* is recorded and the post-click delay runs; button10 arms the gate
YuhunTap(d) ==
    /\ th[d].pc = "y_tap" /\ Ready(d)
    /\ LET r == Forget(th[d]) IN
       \/ \E t \in ClickDelayOf(r.target) :
            LET ok == [Delivered(r) EXCEPT !.wake = now + t] IN
            IF ~YuhunTapReturns(ok)
            THEN Set(d, [ok EXCEPT !.pc = "y_top"])
            ELSE IF YuhunArmsGate(r.target)
            THEN Set(d, [ok EXCEPT !.last_button10_click_time = now + t,
                                   !.check_notupo_after_button10 = TRUE,
                                   !.pc = "loop"])
            ELSE Set(d, [ok EXCEPT !.pc = "loop"])
       \/ Set(d, [r EXCEPT !.pc = "y_top"])
    /\ UNCHANGED <<cfg, detected, screen_png, now, stop_event, pause_events, active_device,
                   last_device_switch_time, co>>

----------------------------------------------------------------------------
(* BaiguiModule.run_once *)

\* the except clause of lines 146-150: log, sleep(1), return False
BaiguiOnFault(r) ==
    [r EXCEPT !.pc = "loop", !.wake = now + 1]

\* the pause test of line 57
BaiguiPaused(d) == pause_events[d]

\* consecutive_errors += 1; past the ceiling the count changes nothing more
BumpErrors(n) == IF n <= max_consecutive_errors THEN n + 1 ELSE n

\* lines 55-76: the pause check (run_once never reads stop_event), the
\* timer-driven device switch, get_screen(); None counts an error and pauses
\* the session past the ceiling
BaiguiTop(d) ==
    /\ th[d].pc = "b_top" /\ Ready(d)
    /\ IF BaiguiPaused(d)
       THEN /\ Set(d, [th[d] EXCEPT !.pc = "loop", !.wake = now + 1])
            /\ UNCHANGED <<pause_events, active_device, last_device_switch_time,
                           screen_png>>
       ELSE /\ TimerSwitch
            /\ \/ LET n == BumpErrors(th[d].consecutive_errors) IN
                  /\ CaptureMayFail
                  /\ Set(d, [th[d] EXCEPT !.pc = "loop", !.consecutive_errors = n])
                  /\ pause_events' = IF n > max_consecutive_errors
                                     THEN [pause_events EXCEPT ![d] = TRUE]
                                     ELSE pause_events
                  /\ UNCHANGED screen_png
               \/ /\ \E f \in Frames :
                       /\ screen_png' = [by |-> d, frame |-> f]
                       /\ Set(d, [th[d] EXCEPT !.pc = "b_read"])
                  /\ UNCHANGED pause_events
    /\ UNCHANGED <<cfg, detected, now, stop_event, co>>

\* core.py line 271 and line 76: imread gives the frame, the error count is
\* reset
BaiguiRead(d) ==
    /\ th[d].pc = "b_read" /\ Ready(d)
    /\ \E t \in CaptureTime :
         Set(d, [th[d] EXCEPT !.pc = "b_decide", !.wake = now + t,
                              !.screen = screen_png.frame,
                              !.consecutive_errors = 0])
    /\ UNCHANGED <<cfg, detected, screen_png, now, stop_event, pause_events,
                   active_device, last_device_switch_time, co>>

\* variant: the exploratory tap is allowed all through the tick budget
ExploreAnyTime(d) == TRUE

\* line 126: less than 80% of the tick budget has elapsed
BaiguiMayExplore(d) ==
    10 * (now - th[d].tick_start) < 8 * max_single_run_time

\* lines 78-144 up to the tap: budget check, candidates, exploratory tap
BaiguiDecide(d) ==
    /\ th[d].pc = "b_decide" /\ Ready(d)
    /\ \/ SetFault(d, BaiguiOnFault(th[d]))
       \/ IF now - th[d].tick_start > max_single_run_time
          THEN Set(d, [th[d] EXCEPT !.pc = "loop"])
          ELSE LET buttons == detect_all_buttons(th[d].screen, cfg.template_sets)
               IN  IF buttons # <<>>
                   THEN Set(d, [th[d] EXCEPT !.pc = "b_tap",
                                             !.target = buttons[1].name])
                   ELSE \E explore \in BOOLEAN :
                          IF BaiguiMayExplore(d) /\ explore
                          THEN Set(d, [th[d] EXCEPT !.pc = "b_random"])
                          ELSE Set(d, [th[d] EXCEPT !.pc = "loop"])
    /\ UNCHANGED <<cfg, detected, screen_png, now, stop_event, pause_events, active_device,
                   last_device_switch_time, co>>

\* line 99: only a delivered button2 tap goes on to the settle screen
BaiguiChecksSettle(button_name) == button_name = "button2"

\* click_button on the top candidate (lines 94, 99, 118, 122) and, after
\* button2, the wait of lines 100-105
BaiguiTap(d) ==
    /\ th[d].pc = "b_tap" /\ Ready(d)
    /\ LET r == Forget(th[d]) IN
       \/ \E t \in ClickDelayOf(r.target), wait_time \in Button2Wait :
            LET ok == Delivered(r) IN
            IF BaiguiChecksSettle(r.target)
               /\ now + t - r.tick_start + wait_time <= max_single_run_time
            THEN Set(d, [ok EXCEPT !.pc = "b_capture2",
                                   !.wake = now + t + wait_time])
            ELSE Set(d, [ok EXCEPT !.pc = "loop", !.wake = now + t])
       \/ Set(d, [r EXCEPT !.pc = "loop"])
    /\ UNCHANGED <<cfg, detected, screen_png, now, stop_event, pause_events, active_device,
                   last_device_switch_time, co>>

\* line 108: the second screenshot, up to the adb pull
BaiguiCapture2(d) ==
    /\ th[d].pc = "b_capture2" /\ Ready(d)
    /\ \/ /\ CaptureMayFail
          /\ Set(d, [th[d] EXCEPT !.pc = "loop"])
          /\ UNCHANGED screen_png
       \/ \E f \in Frames :
            /\ screen_png' = [by |-> d, frame |-> f]
            /\ Set(d, [th[d] EXCEPT !.pc = "b_read2"])
    /\ UNCHANGED <<cfg, detected, now, stop_event, pause_events, active_device,
                   last_device_switch_time, co>>

\* lines 108-114: imread gives the second frame; the search for button3
BaiguiRead2(d) ==
    /\ th[d].pc = "b_read2" /\ Ready(d)
    /\ \E t \in CaptureTime :
         LET f == screen_png.frame IN
         IF find_template("button3", f)
         THEN Set(d, [th[d] EXCEPT !.pc = "b_tap3", !.wake = now + t,
                                   !.screen = f, !.target = "button3"])
         ELSE Set(d, [th[d] EXCEPT !.pc = "loop", !.wake = now + t])
    /\ UNCHANGED <<cfg, detected, screen_png, now, stop_event, pause_events,
                   active_device, last_device_switch_time, co>>

\* line 113: click_button("button3"), result ignored, then return True
BaiguiTap3(d) ==
    /\ th[d].pc = "b_tap3" /\ Ready(d)
    /\ LET r == Forget(th[d]) IN
       \/ \E t \in ClickDelayOf(r.target) :
            Set(d, [Delivered(r) EXCEPT !.pc = "loop", !.wake = now + t])
       \/ Set(d, [r EXCEPT !.pc = "loop"])
    /\ UNCHANGED <<cfg, detected, screen_png, now, stop_event, pause_events, active_device,
                   last_device_switch_time, co>>

\* line 128: screen.shape[:2] of the emulator's frame
FrameShape == [screen_h |-> 720, screen_w |-> 1280]

\* random.randint(a, b) draws from a..b, both ends included; the ends and
\* the middle stand for the range
randint(a, b) == {a, (a + b) \div 2, b}

\* core.py lines 403-407: the points random_click_area can pass to click
random_click_area(x1, y1, x2, y2) == randint(x1, x2) \X randint(y1, y2)

\* lines 128-135 and 140: the region around the centre of the frame
ExploreArea ==
    LET center_x == FrameShape.screen_w \div 2
        center_y == FrameShape.screen_h \div 2
    IN  random_click_area(center_x - 100, center_y - 100,
                          center_x + 100, center_y + 100)

\* lines 138-141: InputController.random_click_area around the centre
BaiguiRandom(d) ==
    /\ th[d].pc = "b_random" /\ Ready(d)
    /\ LET r == [Forget(th[d]) EXCEPT !.target = NoButton] IN
       \/ \E p \in ExploreArea :
            Set(d, [r EXCEPT !.pc = "loop", !.delivered = @ + 1,
                             !.tap_at = p])
       \/ Set(d, [r EXCEPT !.pc = "loop"])
    /\ UNCHANGED <<cfg, detected, screen_png, now, stop_event, pause_events, active_device,
                   last_device_switch_time, co>>

----------------------------------------------------------------------------
(* AutomationEngine.run and handle_user_input *)

\* lines 338-361: select_device on the shared manager, load_module, start
CoordStart ==
    /\ co.pc = "start" /\ co.i <= Len(cfg.selected_devices)
    /\ LET d == cfg.selected_devices[co.i] IN
       /\ active_device' = d
       /\ Set(d, [th[d] EXCEPT !.pc = "init"])
       /\ co' = [co EXCEPT !.i = @ + 1, !.threads = Append(@, d)]
    /\ UNCHANGED <<cfg, detected, screen_png, now, stop_event, pause_events, last_device_switch_time>>

\* lines 363-370: the control panel and the coordinator's own deadline
CoordEnterLoop ==
    /\ co.pc = "start" /\ co.i > Len(cfg.selected_devices)
    /\ co' = [co EXCEPT !.pc = "loop", !.end_time = now + RunDuration]
    /\ UNCHANGED <<cfg, detected, screen_png, now, stop_event, pause_events, active_device,
                   last_device_switch_time, th>>

\* lines 372-378: the loop condition and the deadline
CoordLoop ==
    /\ co.pc = "loop" /\ co.wake <= now
    /\ IF stop_event
       THEN /\ co' = [co EXCEPT !.pc = "join", !.wake = 0]
            /\ UNCHANGED stop_event
       ELSE IF now >= co.end_time
       THEN /\ stop_event' = TRUE
            /\ co' = [co EXCEPT !.pc = "join", !.wake = 0]
       ELSE /\ co' = [co EXCEPT !.pc = "input", !.wake = 0]
            /\ UNCHANGED stop_event
    /\ UNCHANGED <<cfg, detected, screen_png, now, pause_events, active_device,
                   last_device_switch_time, th>>

\* the key the operator may have pressed
Keys == {"", "q", "s", "d"} \cup {"1", "2"}

\* time.sleep(0.1) between two polls: the operator presses at most one key
\* per clock unit
PollSleep == {1}

DigitOf(key) == IF key = "1" THEN 1 ELSE IF key = "2" THEN 2 ELSE 0

\* variant: a 'q' key that toggles every device
ToggleEach(events) ==
    [d \in DeviceIds |-> IF d \in Selected THEN ~events[d] ELSE events[d]]

\* lines 430-438: the 'q' key on the pause events of the selected devices
q_key(events) ==
    LET all_paused == \A d \in Selected : events[d] IN
    [d \in DeviceIds |-> IF d \in Selected THEN ~all_paused ELSE events[d]]

\* lines 380-382 and 422-466: one poll of the keyboard, then sleep(0.1)
CoordInput ==
    /\ co.pc = "input"
    /\ \E key \in Keys, t \in PollSleep :
         /\ co' = IF key = "d" /\ Len(cfg.selected_devices) > 1
                  THEN [co EXCEPT !.pc = "switch", !.k = 1, !.wake = now + t,
                                  !.before = active_device]
                  ELSE [co EXCEPT !.pc = "loop", !.wake = now + t]
         /\ CASE key = "q" ->
                   /\ pause_events' = q_key(pause_events)
                   /\ UNCHANGED <<stop_event, active_device, last_device_switch_time>>
              [] key = "s" ->
                   /\ stop_event' = TRUE
                   /\ UNCHANGED <<pause_events, active_device, last_device_switch_time>>
              [] key = "d" ->
                   UNCHANGED <<stop_event, pause_events, active_device,
                               last_device_switch_time>>
              [] DigitOf(key) \in 1..Len(cfg.selected_devices) ->
                   LET d == cfg.selected_devices[DigitOf(key)] IN
                   /\ pause_events' = [pause_events EXCEPT ![d] = ~@]
                   /\ UNCHANGED <<stop_event, active_device, last_device_switch_time>>
              [] OTHER ->
                   UNCHANGED <<stop_event, pause_events, active_device,
                               last_device_switch_time>>
    /\ UNCHANGED <<cfg, detected, screen_png, now, th>>

\* lines 447-452: the 'd' key calls switch_device() once per started thread,
\* each call on the one shared manager, the sessions running meanwhile;
\* co.before notes the active device at the key press
CoordSwitch ==
    /\ co.pc = "switch"
    /\ IF co.k <= Len(co.threads)
       THEN /\ active_device' = NextDevice
            /\ last_device_switch_time' =
                   IF Len(devices) <= 1 THEN last_device_switch_time ELSE now
            /\ co' = [co EXCEPT !.k = @ + 1]
       ELSE /\ co' = [co EXCEPT !.pc = "loop", !.k = 1, !.before = NoDevice]
            /\ UNCHANGED <<active_device, last_device_switch_time>>
    /\ UNCHANGED <<cfg, detected, screen_png, now, stop_event, pause_events, th>>

\* lines 384-386: Ctrl-C anywhere in the try block sets the stop signal
CoordInterrupt ==
    /\ co.pc \in {"start", "loop", "input", "switch"}
    /\ stop_event' = TRUE
    /\ co' = [co EXCEPT !.pc = "join", !.wake = 0, !.k = 1,
                        !.before = NoDevice]
    /\ UNCHANGED <<cfg, detected, screen_png, now, pause_events, active_device,
                   last_device_switch_time, th>>

\* any other exception of the control loop (handle_user_input imports msvcrt
\* outside its try) reaches the finally clause with the stop signal untouched
CoordCrash ==
    /\ co.pc = "input"
    /\ co' = [co EXCEPT !.pc = "join"]
    /\ UNCHANGED <<cfg, detected, screen_png, now, stop_event, pause_events, active_device,
                   last_device_switch_time, th>>

\* variant: a join that does not wait
JoinWithoutWaiting(d) == TRUE

\* thread.join() returns once the thread has ended
ThreadEnded(d) == th[d].pc = "done"

\* lines 388-392: join every started thread, then return
CoordJoin ==
    /\ co.pc = "join"
    /\ IF co.j <= Len(co.threads)
       THEN /\ ThreadEnded(co.threads[co.j])
            /\ co' = [co EXCEPT !.j = @ + 1]
       ELSE co' = [co EXCEPT !.pc = "returned"]
    /\ UNCHANGED <<cfg, detected, screen_png, now, stop_event, pause_events, active_device,
                   last_device_switch_time, th>>

----------------------------------------------------------------------------
(* The clock *)

Live(d) == th[d].pc \notin {"unstarted", "done"}

CoordBlocked ==
    \/ co.pc = "loop" /\ co.wake > now
    \/ co.pc = "join" /\ co.j <= Len(co.threads) /\ ~ThreadEnded(co.threads[co.j])
    \/ co.pc = "returned"

\* the clock is followed up to here: later than any session's deadline plus
\* the run_once call it may be in
Horizon == switch_interval + RunDuration + 3 * max_single_run_time

Tick ==
    /\ \E d \in DeviceIds : Live(d)
    /\ \A d \in DeviceIds : Live(d) => th[d].wake > now
    /\ CoordBlocked
    /\ now < Horizon
    /\ now' = now + 1
    /\ UNCHANGED <<cfg, detected, screen_png, stop_event, pause_events, active_device,
                   last_device_switch_time, co, th>>

----------------------------------------------------------------------------

Init ==
    /\ cfg \in Configs
    /\ detected = NoCall
    /\ screen_png = NoFile
    /\ now = switch_interval
    /\ stop_event = FALSE
    /\ pause_events = [d \in DeviceIds |-> FALSE]
    /\ active_device = NoDevice
    /\ last_device_switch_time = 0
    /\ co = [pc |-> "start", wake |-> 0, end_time |-> 0, i |-> 1, j |-> 1,
             k |-> 1, threads |-> <<>>, before |-> NoDevice]
    /\ th = [d \in DeviceIds |-> IdleThread]

Session(d) ==
    \/ ThreadInit(d) \/ ThreadLoop(d) \/ ThreadPauseCheck(d) \/ ThreadEscape(d)
    \/ ThreadFinally(d)
    \/ YuhunTop(d) \/ YuhunRead(d) \/ YuhunDecide(d) \/ YuhunTap(d)
    \/ BaiguiTop(d) \/ BaiguiRead(d) \/ BaiguiDecide(d) \/ BaiguiTap(d)
    \/ BaiguiCapture2(d) \/ BaiguiRead2(d) \/ BaiguiTap3(d) \/ BaiguiRandom(d)

Coordinator ==
    \/ CoordStart \/ CoordEnterLoop \/ CoordLoop \/ CoordInput \/ CoordSwitch
    \/ CoordInterrupt \/ CoordCrash \/ CoordJoin

Next == (\E d \in DeviceIds : Session(d)) \/ Coordinator \/ Tick

Spec == Init /\ [][Next]_vars

\* two devices whose screens show none of the controls
QuietFleet ==
    [module |-> "yuhun", template_sets |-> <<"button10">>,
     priority |-> Prio(0, 0), on_screen |-> {},
     threshold |-> DefaultThresholds, missing |-> {},
     special_buttons |-> {},
     capture |-> "steady", selected_devices |-> <<"emu1", "emu2">>]

\* the single-session configurations without special delays, and the fleet
FairConfigs ==
    {c \in Configs : Len(c.selected_devices) = 1 /\ c.special_buttons = {}}
        \cup {QuietFleet}

FairInit ==
    /\ cfg \in FairConfigs
    /\ detected = NoCall
    /\ screen_png = NoFile
    /\ now = switch_interval
    /\ stop_event = FALSE
    /\ pause_events = [d \in DeviceIds |-> FALSE]
    /\ active_device = NoDevice
    /\ last_device_switch_time = 0
    /\ co = [pc |-> "start", wake |-> 0, end_time |-> 0, i |-> 1, j |-> 1,
             k |-> 1, threads |-> <<>>, before |-> NoDevice]
    /\ th = [d \in DeviceIds |-> IdleThread]

\* further configurations: a fleet whose screens show the terminal control,
\* and template sets that list the terminal and gate controls themselves
WideConfigs ==
    { [module |-> "yuhun", template_sets |-> <<"button10">>,
       priority |-> Prio(0, 0), on_screen |-> {"lose", "button10"},
       threshold |-> DefaultThresholds, missing |-> {},
       special_buttons |-> {},
       capture |-> "steady", selected_devices |-> <<"emu1", "emu2">>],
      [module |-> "yuhun", template_sets |-> <<"button10", "notupo", "lose">>,
       priority |-> Prio(0, 0), on_screen |-> {"lose", "notupo", "button10"},
       threshold |-> DefaultThresholds, missing |-> {},
       special_buttons |-> {},
       capture |-> "flaky", selected_devices |-> <<"emu1">>],
      [module |-> "baigui",
       template_sets |-> <<"button1", "button2", "button3", "lose">>,
       priority |-> Prio(0, 0),
       on_screen |-> {"lose", "button1", "button2", "button3"},
       threshold |-> DefaultThresholds, missing |-> {},
       special_buttons |-> {},
       capture |-> "flaky", selected_devices |-> <<"emu1">>] }

WideInit ==
    /\ cfg \in WideConfigs
    /\ detected = NoCall
    /\ screen_png = NoFile
    /\ now = switch_interval
    /\ stop_event = FALSE
    /\ pause_events = [d \in DeviceIds |-> FALSE]
    /\ active_device = NoDevice
    /\ last_device_switch_time = 0
    /\ co = [pc |-> "start", wake |-> 0, end_time |-> 0, i |-> 1, j |-> 1,
             k |-> 1, threads |-> <<>>, before |-> NoDevice]
    /\ th = [d \in DeviceIds |-> IdleThread]

WideSpec == WideInit /\ [][Next]_vars

\* a BaiguiModule session behind a slow adb connection
SlowBaigui ==
    [module |-> "baigui", template_sets |-> <<"button1">>,
     priority |-> Prio(0, 0), on_screen |-> {"button1"},
     threshold |-> DefaultThresholds, missing |-> {},
     special_buttons |-> {},
     capture |-> "slow", selected_devices |-> <<"emu1">>]

ExploreConfigs == FairConfigs \cup {SlowBaigui}

ExploreInit ==
    /\ cfg \in ExploreConfigs
    /\ detected = NoCall
    /\ screen_png = NoFile
    /\ now = switch_interval
    /\ stop_event = FALSE
    /\ pause_events = [d \in DeviceIds |-> FALSE]
    /\ active_device = NoDevice
    /\ last_device_switch_time = 0
    /\ co = [pc |-> "start", wake |-> 0, end_time |-> 0, i |-> 1, j |-> 1,
             k |-> 1, threads |-> <<>>, before |-> NoDevice]
    /\ th = [d \in DeviceIds |-> IdleThread]

ExploreSpec == ExploreInit /\ [][Next]_vars

\* every live session is in a sleep or waiting for adb
AllAsleep == \A d \in DeviceIds : Live(d) => th[d].wake > now

\* the threads are scheduled: a step that can be taken is taken.  Every loop
\* iteration of a session sleeps or waits for adb, so no session runs for
\* ever within one unit of the clock.
FairSpec == FairInit /\ [][Next]_vars /\ WF_vars(Next) /\ []<>AllAsleep

-----------------------------------------------------------------------------
(* detect_all_buttons on its own: any frame, any catalog, any settings *)

\* the longest list of control names passed in one call
MaxNames == 3

DetectNames == {"button1", "button2", "button3"}

DetectScores == {0, 85, 95}

ThresholdLevels == {default_threshold, 90}

PriorityLevels == {default_priority, 1}

\* a catalog names each of its controls once
DetectLists ==
    {l \in UNION {[1..n -> DetectNames] : n \in 0..MaxNames} :
        \A i, j \in DOMAIN l : i # j => l[i] # l[j]}

DetectFrames ==
    {f \in [Controls -> DetectScores] : \A c \in Controls \ DetectNames : f[c] = 0}

DetectConfigs ==
    {[module |-> "yuhun", template_sets |-> <<>>,
      priority |-> [c \in Controls |-> IF c \in DetectNames THEN p[c]
                                       ELSE default_priority],
      threshold |-> [c \in Controls |-> IF c \in DetectNames THEN t[c]
                                        ELSE default_threshold],
      missing |-> m, special_buttons |-> {}, on_screen |-> DetectNames,
      capture |-> "steady",
      selected_devices |-> <<"emu1">>] :
        p \in [DetectNames -> PriorityLevels],
        t \in [DetectNames -> ThresholdLevels],
        m \in {{}} \cup {{c} : c \in DetectNames}}

DetectInit ==
    /\ cfg \in DetectConfigs
    /\ \E screen \in DetectFrames, template_names \in DetectLists :
         detected = [screen |-> screen, template_names |-> template_names,
                     buttons |-> <<>>, returned |-> FALSE]
    /\ screen_png = NoFile
    /\ now = switch_interval
    /\ stop_event = FALSE
    /\ pause_events = [d \in DeviceIds |-> FALSE]
    /\ active_device = NoDevice
    /\ last_device_switch_time = 0
    /\ co = [pc |-> "start", wake |-> 0, end_time |-> 0, i |-> 1, j |-> 1,
             k |-> 1, threads |-> <<>>, before |-> NoDevice]
    /\ th = [d \in DeviceIds |-> IdleThread]

\* the call detect_all_buttons(screen, template_names) returns
Detect ==
    /\ ~detected.returned
    /\ detected' = [detected EXCEPT
                      !.buttons = detect_all_buttons(detected.screen,
                                                     detected.template_names),
                      !.returned = TRUE]
    /\ UNCHANGED <<cfg, screen_png, now, stop_event, pause_events,
                   active_device, last_device_switch_time, co, th>>

DetectSpec == DetectInit /\ [][Detect]_vars

----------------------------------------------------------------------------
(* The legacy runner of auto_click.py: YuhunAutomation.run under its       *)
(* DeviceThread, one session, the clock counting seconds                   *)

\* the run duration given to the legacy DeviceThread
LegacyRunDuration == 12

\* auto_click.py line 62
legacy_max_run_time == 5

\* AutoClicker.__init__: button_config['notupo'] threshold 0.5
legacy_notupo_threshold == 50

\* AutoClicker.button7_wait_range = (8, 10)
button7_wait_range == 8..10

\* AutoClicker.delay_range = (1, 3)
delay_range == 1..3

\* get_screen: two adb round trips
LegacyCaptureTime == {1}

\* get_template_names: the button*.png files of the image directory, sorted
\* as strings
LegacyNames == <<"button10", "button7">>

LegacyConfig ==
    [module |-> "legacy", template_sets |-> LegacyNames,
     priority |-> Prio(0, 0),
     threshold |-> [c \in Controls |-> IF c = "notupo"
                                       THEN legacy_notupo_threshold
                                       ELSE default_threshold],
     missing |-> {}, special_buttons |-> {},
     on_screen |-> {"lose", "notupo", "button7", "button10"},
     capture |-> "flaky", selected_devices |-> <<"emu1">>]

\* AutoClicker.find_template: a position when some location reaches the
\* control's threshold
LegacyFind(name, screen) == screen[name] >= cfg.threshold[name]

\* the first name of the list, from place i on, found on the frame; 0 if none
RECURSIVE LegacyFirstFrom(_, _)
LegacyFirstFrom(i, screen) ==
    IF i > Len(LegacyNames) THEN 0
    ELSE IF LegacyFind(LegacyNames[i], screen) THEN i
    ELSE LegacyFirstFrom(i + 1, screen)

LegacyPlace(name) ==
    IF \E i \in 1..Len(LegacyNames) : LegacyNames[i] = name
    THEN CHOOSE i \in 1..Len(LegacyNames) : LegacyNames[i] = name
    ELSE 0

LegacyInit ==
    /\ cfg = LegacyConfig
    /\ detected = NoCall
    /\ screen_png = NoFile
    /\ now = switch_interval
    /\ stop_event = FALSE
    /\ pause_events = [d \in DeviceIds |-> FALSE]
    /\ active_device = NoDevice
    /\ last_device_switch_time = 0
    /\ co = [pc |-> "start", wake |-> 0, end_time |-> 0, i |-> 1, j |-> 1,
             k |-> 1, threads |-> <<>>, before |-> NoDevice]
    /\ th = [d \in DeviceIds |->
               IF d \in SeqToSet(LegacyConfig.selected_devices)
               THEN [IdleThread EXCEPT !.pc = "l_loop",
                                       !.start_time = switch_interval,
                                       !.end_time = switch_interval
                                                    + LegacyRunDuration]
               ELSE IdleThread]

\* DeviceThread.run lines 189-203: loop condition, deadline check, then the
\* call of YuhunAutomation.run
LegacyThreadLoop(d) ==
    /\ th[d].pc = "l_loop" /\ Ready(d)
    /\ IF stop_event
       THEN /\ Set(d, [th[d] EXCEPT !.pc = "l_finally"])
            /\ UNCHANGED stop_event
       ELSE IF now >= th[d].end_time
       THEN /\ stop_event' = TRUE
            /\ Set(d, [th[d] EXCEPT !.pc = "l_finally"])
       ELSE /\ Set(d, [Forget(th[d]) EXCEPT !.pc = "l_top", !.tick_start = now,
                                            !.target = NoButton])
            /\ UNCHANGED stop_event
    /\ UNCHANGED <<cfg, detected, screen_png, now, pause_events, active_device,
                   last_device_switch_time, co>>

\* DeviceThread.run lines 211-214: the finally clause logs the run time
LegacyFinally(d) ==
    /\ th[d].pc = "l_finally" /\ Ready(d)
    /\ Set(d, [th[d] EXCEPT !.pc = "done", !.run_time_logged = TRUE])
    /\ UNCHANGED <<cfg, detected, screen_png, now, stop_event, pause_events,
                   active_device, last_device_switch_time, co>>

\* YuhunAutomation.run lines 65-80: loop condition, budget, pause, get_screen
LegacyTop(d) ==
    /\ th[d].pc = "l_top" /\ Ready(d)
    /\ IF stop_event \/ now - th[d].tick_start > legacy_max_run_time
       THEN Set(d, [th[d] EXCEPT !.pc = "l_loop"])
       ELSE IF pause_events[d]
       THEN Set(d, [th[d] EXCEPT !.wake = now + 1])
       ELSE \/ /\ CaptureMayFail
               /\ Set(d, [th[d] EXCEPT !.wake = now + 1,
                                       !.capture_failures = @ + 1])
            \/ \E f \in Frames, t \in LegacyCaptureTime :
                 Set(d, [th[d] EXCEPT !.pc = "l_decide", !.wake = now + t,
                                      !.screen = f, !.capture_failures = 0])
    /\ UNCHANGED <<cfg, detected, screen_png, now, stop_event, pause_events,
                   active_device, last_device_switch_time, co>>

\* lines 103-147: the for loop over the template names from place i on
LegacyScan(d, r, i) ==
    IF i > Len(LegacyNames)
    THEN Set(d, [Forget(r) EXCEPT !.pc = "l_top", !.target = NoButton])
    ELSE IF now - r.tick_start > legacy_max_run_time
    THEN Set(d, [r EXCEPT !.pc = "l_loop"])
    ELSE IF stop_event \/ pause_events[d] \/ LegacyFirstFrom(i, r.screen) = 0
    THEN Set(d, [Forget(r) EXCEPT !.pc = "l_top", !.target = NoButton])
    ELSE LET template_name == LegacyNames[LegacyFirstFrom(i, r.screen)] IN
         IF template_name = "button7"
         THEN \E wait_time \in button7_wait_range :
                IF now - r.tick_start + wait_time > legacy_max_run_time
                THEN Set(d, [r EXCEPT !.pc = "l_loop"])
                ELSE Set(d, [r EXCEPT !.pc = "l_tap", !.target = template_name,
                                      !.wake = now + wait_time])
         ELSE Set(d, [r EXCEPT !.pc = "l_tap", !.target = template_name])

\* lines 82-147 on one frame: lose, the notupo gate, then the template names
LegacyDecide(d) ==
    /\ th[d].pc = "l_decide" /\ Ready(d)
    /\ IF LegacyFind("lose", th[d].screen)
       THEN /\ pause_events' = [pause_events EXCEPT ![d] = TRUE]
            /\ Set(d, [th[d] EXCEPT !.pc = "l_loop"])
       ELSE IF th[d].check_notupo_after_button10
       THEN IF LegacyFind("notupo", th[d].screen)
            THEN /\ pause_events' = [pause_events EXCEPT ![d] = TRUE]
                 /\ Set(d, [th[d] EXCEPT !.pc = "l_loop"])
            ELSE IF now - th[d].last_button10_click_time > notupo_window
            THEN /\ LegacyScan(d, [th[d] EXCEPT
                                     !.check_notupo_after_button10 = FALSE], 1)
                 /\ UNCHANGED pause_events
            ELSE /\ Set(d, [Forget(th[d]) EXCEPT !.pc = "l_top"])
                 /\ UNCHANGED pause_events
       ELSE /\ LegacyScan(d, th[d], 1)
            /\ UNCHANGED pause_events
    /\ UNCHANGED <<cfg, detected, screen_png, now, stop_event, active_device,
                   last_device_switch_time, co>>

\* lines 114-145: random_click on the found control; a delivered button10 tap
\* arms the gate, any other is followed by random_delay unless the budget is
\* nearly spent; after a failed tap the for loop goes on with the next name
LegacyTap(d) ==
    /\ th[d].pc = "l_tap" /\ Ready(d)
    /\ \/ LET ok == Delivered(th[d]) IN
          IF ok.target = "button10"
          THEN Set(d, [Forget(ok) EXCEPT !.pc = "l_top",
                                         !.last_button10_click_time = now,
                                         !.check_notupo_after_button10 = TRUE])
          ELSE IF now - ok.tick_start + 1 > legacy_max_run_time
          THEN Set(d, [ok EXCEPT !.pc = "l_loop"])
          ELSE \E delay \in delay_range :
                 Set(d, [Forget(ok) EXCEPT !.pc = "l_top", !.wake = now + delay])
       \/ LegacyScan(d, th[d], LegacyPlace(th[d].target) + 1)
    /\ UNCHANGED <<cfg, detected, screen_png, now, stop_event, pause_events,
                   active_device, last_device_switch_time, co>>

\* time passes when the legacy session sleeps
LegacyTick ==
    /\ \E d \in DeviceIds : Live(d)
    /\ \A d \in DeviceIds : Live(d) => th[d].wake > now
    /\ now' = now + 1
    /\ UNCHANGED <<cfg, detected, screen_png, stop_event, pause_events,
                   active_device, last_device_switch_time, co, th>>

LegacySession(d) ==
    \/ LegacyThreadLoop(d) \/ LegacyTop(d) \/ LegacyDecide(d) \/ LegacyTap(d)
    \/ LegacyFinally(d)

LegacyNext == (\E d \in DeviceIds : LegacySession(d)) \/ LegacyTick

\* a session that can take a step takes one, and the clock does not stop
LegacySpec == LegacyInit /\ [][LegacyNext]_vars /\ WF_vars(LegacyNext)

----------------------------------------------------------------------------
(* DeviceManager.switch_device on its own: any device list, any active     *)
(* device of the list                                                      *)

\* the longest device list
MaxDevices == 3

DeviceNames == {"emu1", "emu2", "emu3", "emu4"}

\* the lists list_devices can give: each connected device once
DeviceLists ==
    {l \in UNION {[1..n -> DeviceNames] : n \in 0..MaxDevices} :
        \A i, j \in 1..Len(l) : l[i] = l[j] => i = j}

\* the number of switch_device calls made so far, one per clock unit
Switches == now - switch_interval

SwitchInit ==
    /\ \E devs \in DeviceLists :
         \E a \in (IF devs = <<>> THEN {NoDevice} ELSE SeqToSet(devs)) :
           /\ cfg = [devices |-> devs, active_device |-> a]
           /\ active_device = a
    /\ detected = NoCall
    /\ screen_png = NoFile
    /\ now = switch_interval
    /\ stop_event = FALSE
    /\ pause_events = [d \in DeviceIds |-> FALSE]
    /\ last_device_switch_time = 0
    /\ co = [pc |-> "start", wake |-> 0, end_time |-> 0, i |-> 1, j |-> 1,
             k |-> 1, threads |-> <<>>, before |-> NoDevice]
    /\ th = [d \in DeviceIds |-> IdleThread]

\* one call of switch_device: lines 201-216
Switch ==
    /\ Switches < 2 * MaxDevices
    /\ active_device' = switch_device(cfg.devices, active_device)
    /\ last_device_switch_time' =
          IF Len(cfg.devices) <= 1 THEN last_device_switch_time ELSE now
    /\ now' = now + 1
    /\ UNCHANGED <<cfg, detected, screen_png, stop_event, pause_events, co, th>>

SwitchSpec == SwitchInit /\ [][Switch]_vars

----------------------------------------------------------------------------
(* Properties *)

\* the positions at which a tap is issued for a control found on th[d].screen
TapPcs == {"y_tap", "b_tap", "b_tap3"}

\* the step of session d that issues such a tap and has it delivered
TapStep(d) == th[d].pc \in TapPcs /\ th'[d].delivered > th[d].delivered

\* the step of session d in which get_screen() pulls a frame from the
\* manager's device
CaptureStep(d) ==
    /\ th[d].pc \in {"y_top", "b_top", "b_capture2"}
    /\ th'[d].pc \in {"y_read", "b_read", "b_read2"}

\* the first candidate detect_all_buttons returns for a frame
TopCandidate(screen) ==
    LET buttons == detect_all_buttons(screen, cfg.template_sets)
    IN  IF buttons = <<>> THEN NoButton ELSE buttons[1].name

\* the gate is armed and its validity window has not elapsed
GateWindow(d) ==
    /\ th[d].check_notupo_after_button10
    /\ now - th[d].last_button10_click_time <= notupo_window

\* C1: in every module, no tap is issued on the basis of a frame on which
\* 'lose' matches together with a normal control.
C1_LosePrecedence ==
    \A d \in DeviceIds :
        th[d].pc \in TapPcs => ~find_template("lose", th[d].screen)

\* C2: in YuhunModule, while the gate is armed and at most notupo_window has
\* elapsed since last_button10_click_time, a frame leads to no candidate
\* selection and no tap: the session is never about to tap, and the step that
\* handles a frame only pauses, polls again or backs off.
C2_GateWindowNoTap ==
    [][\A d \in DeviceIds :
         GateWindow(d) =>
           /\ th[d].pc # "y_tap"
           /\ (th[d].pc = "y_decide" /\ th'[d] # th[d]) =>
                /\ th'[d].pc \in {"y_top", "loop"}
                /\ th'[d].delivered = th[d].delivered]_vars

C2_Witness ==
    \E d \in DeviceIds :
        /\ th[d].pc = "y_decide" /\ Ready(d) /\ GateWindow(d)
        /\ find_template("button10", th[d].screen)
        /\ ~find_template("lose", th[d].screen)
        /\ ~find_template("notupo", th[d].screen)

C4_Button4First ==
    \A d \in DeviceIds :
        ( /\ th[d].pc = "y_tap"
          /\ TopCandidate(th[d].screen) = "button5"
          /\ find_template("button4", th[d].screen)
          /\ th[d].last_button_clicked # "button4" )
        => th[d].target = "button4"

C4_Witness ==
    \E d \in DeviceIds :
        /\ th[d].pc = "y_tap" /\ th[d].target = "button4" /\ th[d].prereq
        /\ TopCandidate(th[d].screen) = "button5"
        /\ find_template("button4", th[d].screen)
        /\ th[d].last_button_clicked # "button4"

\* C5: a DeviceThread leaves its run loop no later than its end_time plus
\* max_single_run_time.
C5_DeadlineExit ==
    \A d \in DeviceIds :
        th[d].pc = "finally" => now <= th[d].end_time + max_single_run_time

\* C6: every frame captured and every tap delivered by the session started
\* for device d goes to device d.
C6_OwnDevice ==
    [][\A d \in DeviceIds :
         /\ CaptureStep(d) => active_device' = d
         /\ TapStep(d) => active_device = d]_vars

\* C7: once AutomationEngine.run has returned, every DeviceThread it started
\* has terminated.
C7_JoinAll ==
    co.pc = "returned" =>
        \A i \in 1..Len(co.threads) : th[co.threads[i]].pc = "done"

C7_Witness ==
    /\ co.pc = "returned"
    /\ Len(co.threads) = 2

\* C8: a loop iteration or run_once call that finds the device's pause signal
\* set captures nothing, detects nothing and taps nothing: it returns to the
\* thread loop, after sleep(1) unless the stop signal or the spent budget ended
\* the call first.
C8_PausedNoWork ==
    [][\A d \in DeviceIds :
         ( /\ pause_events[d]
           /\ th[d].pc \in {"pause_check", "y_top", "b_top"}
           /\ th'[d] # th[d] )
         => /\ th'[d].pc = "loop"
            /\ th'[d].screen = BlankFrame
            /\ th'[d].delivered = th[d].delivered
            /\ active_device' = active_device
            /\ \/ th'[d].wake = now + 1
               \/ /\ th[d].pc = "y_top"
                  /\ \/ stop_event
                     \/ now - th[d].tick_start > max_single_run_time]_vars

C8_Witness ==
    \E d \in DeviceIds :
        /\ pause_events[d] /\ ~stop_event
        /\ th[d].pc = "y_top" /\ Ready(d)
        /\ now - th[d].tick_start <= max_single_run_time

\* C9: a run_once call that begins with the stop signal set captures no frame
\* and issues no tap, in both modules.
C9_StopAtTop ==
    \A d \in DeviceIds :
        th[d].stop_at_call =>
            /\ th[d].pc \in {"y_top", "b_top", "loop"}
            /\ th[d].screen = BlankFrame
            /\ th[d].delivered = 0

Failures(d) ==
    IF cfg.module = "baigui" THEN th[d].consecutive_errors
    ELSE th[d].capture_failures

\* C11: in every module, the failed capture that takes a session's count of
\* consecutive failures past the ceiling sets that session's pause signal, and
\* changes neither the stop signal nor another session's pause signal.
C11_AutoPause ==
    [][\A d \in DeviceIds :
         ( /\ Failures(d) <= max_consecutive_errors
           /\ Failures(d)' > max_consecutive_errors )
         => /\ pause_events'[d]
            /\ stop_event' = stop_event
            /\ \A e \in DeviceIds \ {d} : pause_events'[e] = pause_events[e]]_vars

\* C12: a DeviceThread whose module's initialize() returned False never calls
\* run_once; the step that ends it leaves the stop signal, the pause signals,
\* the coordinator and every other session as they were.
C12_InitFailure ==
    [][\A d \in DeviceIds :
         /\ ~th[d].initialized =>
                th[d].pc \in {"unstarted", "init", "finally", "done"}
         /\ (th[d].pc = "init" /\ th'[d].pc # "init" /\ ~th'[d].initialized) =>
                /\ th'[d].pc = "finally"
                /\ stop_event' = stop_event
                /\ pause_events' = pause_events
                /\ co' = co
                /\ \A e \in DeviceIds \ {d} : th'[e] = th[e]]_vars

C12_Witness ==
    \E d, e \in DeviceIds :
        /\ d # e /\ ~stop_event
        /\ th[d].pc = "done" /\ ~th[d].initialized
        /\ th[e].pc \in {"y_decide", "y_tap"}

\* C13: a DeviceThread that has terminated has called cleanup() exactly once
\* and logged its run time; one that has not terminated has done neither.
C13_CleanupOnce ==
    \A d \in DeviceIds :
        IF th[d].pc = "done"
        THEN th[d].cleanups = 1 /\ th[d].run_time_logged
        ELSE th[d].cleanups = 0 /\ ~th[d].run_time_logged

C13_Witness ==
    \E d \in DeviceIds :
        /\ th[d].pc = "done" /\ th[d].cleanups = 1 /\ th[d].run_time_logged
        /\ th[d].initialized /\ ~stop_event

\* the step of YuhunModule that handles a captured frame without a fault
FrameStep(d) ==
    th[d].pc = "y_decide" /\ th'[d] # th[d] /\ ~th'[d].fault

\* C14: YuhunModule answers a frame without match by polling again without
\* tap, a frame with button10 by tapping it, the delivered button10 tap by
\* arming the gate and ending the call, a gate-window frame without notupo by
\* polling again without tap, and an armed-gate frame with notupo by setting
\* the pause signal without tap.
C14_GateTrace ==
    [][\A d \in DeviceIds :
         LET scr == th[d].screen
             armed == th[d].check_notupo_after_button10
             quiet == /\ th'[d].delivered = th[d].delivered
                      /\ th'[d].pc # "y_tap"
         IN  /\ (FrameStep(d) /\ ~YuhunLose(scr) /\ ~armed
                   /\ TopCandidate(scr) = NoButton) =>
                    /\ quiet /\ th'[d].pc = "y_top"
                    /\ pause_events' = pause_events
             /\ (FrameStep(d) /\ ~YuhunLose(scr) /\ ~armed
                   /\ TopCandidate(scr) = "button10") =>
                    /\ th'[d].pc = "y_tap" /\ th'[d].target = "button10"
             /\ (th[d].pc = "y_tap" /\ th[d].target = "button10"
                   /\ th'[d].delivered > th[d].delivered) =>
                    /\ th'[d].check_notupo_after_button10
                    /\ th'[d].last_button10_click_time >= now
                    /\ th'[d].pc = "loop"
             /\ (FrameStep(d) /\ ~YuhunLose(scr) /\ GateWindow(d)
                   /\ ~find_template("notupo", scr)) =>
                    /\ quiet /\ th'[d].pc = "y_top"
                    /\ th'[d].check_notupo_after_button10
                    /\ pause_events' = pause_events
             /\ (FrameStep(d) /\ ~YuhunLose(scr) /\ armed
                   /\ find_template("notupo", scr)) =>
                    /\ quiet /\ th'[d].pc = "loop"
                    /\ pause_events'[d]]_vars

C14_Witness ==
    \E d \in DeviceIds :
        /\ pause_events[d] /\ th[d].pc = "loop"
        /\ th[d].check_notupo_after_button10
        /\ now - th[d].last_button10_click_time <= notupo_window
        /\ find_template("notupo", th[d].screen)
        /\ th[d].last_button_clicked = "button10"
        /\ th[d].delivered = 0

\* the gate is armed, the button10 tap is over, the window has not elapsed
GateWait(d) ==
    /\ GateWindow(d)
    /\ now >= th[d].last_button10_click_time

\* C15: the shared manager's active device is never changed, by the timer
\* inside run_once or by the 'd' key, while a session is in gate-wait.
C15_NoRebindInGate ==
    [][(\E d \in DeviceIds : GateWait(d)) => active_device' = active_device]_vars

\* the place of a control in the requested list
PlaceOf(name) ==
    CHOOSE i \in 1..Len(detected.template_names) : detected.template_names[i] = name

\* C16: the list detect_all_buttons returns is ordered by priority ascending,
\* among equal priorities by score descending, and among equal priority and
\* score by the order of the requested names.
C16_ByPriorityThenScore ==
    \A i \in 1..(Len(detected.buttons) - 1) :
        LET a == detected.buttons[i]
            b == detected.buttons[i + 1]
        IN  \/ a.priority < b.priority
            \/ a.priority = b.priority /\ a.score > b.score
            \/ /\ a.priority = b.priority
               /\ a.score = b.score
               /\ PlaceOf(a.name) < PlaceOf(b.name)

\* C17: detect_all_buttons returns at most one candidate per control name,
\* every candidate scores at or above its control's configured threshold, and
\* a control whose template image is missing yields no candidate.
C17_OnePerControl ==
    /\ \A i, j \in DOMAIN detected.buttons :
          i # j => detected.buttons[i].name # detected.buttons[j].name
    /\ \A i \in DOMAIN detected.buttons :
          LET b == detected.buttons[i]
          IN  /\ b.score = detected.screen[b.name]
              /\ b.score >= cfg.threshold[b.name]
              /\ b.name \notin cfg.missing

\* a call whose list names a control without an image that is on the frame
\* well above threshold, a control below its threshold and one that is found
C17_Witness ==
    /\ \E c \in SeqToSet(detected.template_names) :
          c \in cfg.missing /\ detected.screen[c] >= cfg.threshold[c]
    /\ \E c \in SeqToSet(detected.template_names) \ cfg.missing :
          /\ detected.screen[c] > 0
          /\ detected.screen[c] < cfg.threshold[c]
    /\ Len(detected.buttons) = 1
    /\ detected.returned

\* no control's template reaches its threshold on the frame
NoMatch(screen) == \A c \in Controls : screen[c] < cfg.threshold[c]

\* C18: on a frame that matches no control, detection returns the empty list
\* and the session handling that frame issues no tap of a control; BaiguiModule
\* then does one exploratory tap at most or idles, YuhunModule does not tap.
C18_NoMatchOneAction ==
    [][\A d \in DeviceIds :
          NoMatch(th[d].screen) =>
            /\ th[d].pc \in {"y_decide", "b_decide"} =>
                  /\ detect_all_buttons(th[d].screen, cfg.template_sets) = <<>>
                  /\ th'[d].pc \notin TapPcs
                  /\ cfg.module = "yuhun" => th'[d].pc # "b_random"
            /\ th[d].pc \notin TapPcs
            /\ th'[d].delivered <=
                  th[d].delivered + (IF th[d].pc = "b_random" THEN 1 ELSE 0)
            /\ th[d].pc = "b_random" /\ th'[d] # th[d] =>
                  th'[d].pc \in {"loop", "finally"}]_vars

\* a BaiguiModule session about to make the exploratory tap on such a frame
C18_Witness ==
    \E d \in DeviceIds : th[d].pc = "b_random" /\ NoMatch(th[d].screen)

\* the control a frame determines under the settings alone: among the
\* requested controls found on the frame, the one of least priority value,
\* the earliest requested among equals
ExpectedControl(screen) ==
    LET names == cfg.template_sets
        found == {i \in 1..Len(names) :
                    /\ names[i] \notin cfg.missing
                    /\ screen[names[i]] >= cfg.threshold[names[i]]}
    IN  IF found = {} THEN NoButton
        ELSE names[CHOOSE i \in found :
                     \A j \in found :
                        \/ cfg.priority[names[i]] < cfg.priority[names[j]]
                        \/ /\ cfg.priority[names[i]] = cfg.priority[names[j]]
                           /\ i <= j]

\* gate not armed, no terminal match, no sequencing constraint pending
Unconstrained(d) ==
    /\ ~th[d].check_notupo_after_button10
    /\ th[d].screen["lose"] < cfg.threshold["lose"]
    /\ ~(ExpectedControl(th[d].screen) = "button5"
         /\ th[d].last_button_clicked # "button4")

\* C19: from an unconstrained session state the control selected for the tap
\* is a function of the frame and the settings: it depends neither on a
\* random draw nor on an earlier tick, and no other outcome selects a control.
C19_SameFrameSameControl ==
    [][\A d \in DeviceIds :
          /\ th[d].pc \in {"y_decide", "b_decide"}
          /\ Unconstrained(d)
          /\ th'[d].pc \in TapPcs
          => /\ th'[d].target = ExpectedControl(th[d].screen)
             /\ th'[d].target # NoButton]_vars

\* button5 selected ahead of button4, both on the frame, in a later tick of a
\* session that has tapped button4 before
C19_Witness ==
    \E d \in DeviceIds :
        /\ th[d].pc = "y_tap"
        /\ th[d].target = "button5"
        /\ th[d].target = ExpectedControl(th[d].screen)
        /\ th[d].screen["button4"] >= cfg.threshold["button4"]
        /\ th[d].last_button_clicked = "button4"

\* the step of session d in which get_screen() reads "screen.png" and returns
ReadStep(d) ==
    /\ th[d].pc \in {"y_read", "b_read", "b_read2"}
    /\ th'[d] # th[d]

\* C20: the frame get_screen() returns to a session is the one that same call
\* pulled, never the image another session's capture wrote to "screen.png".
C20_OwnFrame ==
    [][\A d \in DeviceIds : ReadStep(d) => screen_png.by = d]_vars

\* C21: a delivered button10 tap is followed at once by the armed gate, the
\* click time read when click_button returns, and by the end of the call,
\* whether click_button takes its ordinary delay or its special delay.
C21_Button10ArmsGate ==
    [][\A d \in DeviceIds :
          (TapStep(d) /\ th[d].pc = "y_tap" /\ th[d].target = "button10") =>
            /\ th'[d].check_notupo_after_button10
            /\ th'[d].pc = "loop"
            /\ th'[d].delivered = th[d].delivered + 1
            /\ th'[d].last_button10_click_time = th'[d].wake
            /\ th'[d].last_button10_click_time - now \in
                  (IF "button10" \in cfg.special_buttons THEN DelayAfter
                   ELSE ClickDelay)]_vars

\* the gate armed after the longest special delay has run
C21_Witness ==
    \E d \in DeviceIds :
        /\ "button10" \in cfg.special_buttons
        /\ th[d].check_notupo_after_button10
        /\ th[d].last_button_clicked = "button10"
        /\ th[d].last_button10_click_time = now
        /\ th[d].pc = "loop"
        /\ \E t \in DelayAfter : t > 1 /\ th[d].tick_start + t <= now

\* the step in which YuhunModule answers notupo on its frame with the pause
\* signal
NotupoStep(d) ==
    /\ th[d].pc = "y_decide" /\ th'[d] # th[d]
    /\ ~YuhunLose(th[d].screen)
    /\ ~pause_events[d] /\ pause_events'[d]

\* C22: notupo sets the pause signal only while the gate is armed and at most
\* notupo_window has elapsed since last_button10_click_time.
C22_NotupoOnlyInWindow ==
    [][\A d \in DeviceIds : NotupoStep(d) => GateWindow(d)]_vars

\* C23: on a frame whose top candidate is button5 while last_button_clicked
\* is not button4, YuhunModule does not go on to tap button5.
C23_Button5Skipped ==
    [][\A d \in DeviceIds :
          ( /\ th[d].pc = "y_decide"
            /\ TopCandidate(th[d].screen) = "button5"
            /\ th[d].last_button_clicked # "button4" )
          => ~(th'[d].pc = "y_tap" /\ th'[d].target = "button5")]_vars

\* C24: in both modules no tap is delivered in a run_once call once more than
\* max_single_run_time has elapsed since the call began.
C24_NoTapPastBudget ==
    [][\A d \in DeviceIds :
          TapStep(d) => now - th[d].tick_start <= max_single_run_time]_vars

\* a legacy session has had a button7 tap delivered
LegacyTappedButton7 ==
    \E d \in DeviceIds : th[d].last_button_clicked = "button7"

\* the legacy session is paused, a capture has failed, or a frame has come on
\* which button7 is not the first matching control
LegacyOffScript ==
    \E d \in DeviceIds :
        \/ pause_events[d]
        \/ th[d].capture_failures > 0
        \/ /\ th[d].pc = "l_decide"
           /\ \/ LegacyFirstFrom(1, th[d].screen) = 0
              \/ LegacyNames[LegacyFirstFrom(1, th[d].screen)] # "button7"

\* C25: a legacy session that is not paused and on whose every frame button7
\* is the first matching control eventually taps button7.
C25_Button7Eventually == <>(LegacyTappedButton7 \/ LegacyOffScript)

\* the deadline of some started session has passed
DeadlinePassed ==
    \E e \in DeviceIds : th[e].end_time > 0 /\ now >= th[e].end_time

\* C26: once the shared stop signal is set or the deadline of some session
\* has passed, every running DeviceThread terminates, whether or not its pause
\* signal is set.
C26_ThreadsTerminate ==
    \A d \in DeviceIds :
        (Live(d) /\ (stop_event \/ DeadlinePassed)) ~> (th[d].pc = "done")

\* both sessions of a fleet have ended, one of them paused to the end, on the
\* stop signal a session set at its deadline while the coordinator was still
\* in its control loop
C26_Witness ==
    /\ Len(cfg.selected_devices) > 1
    /\ co.pc = "loop"
    /\ stop_event
    /\ \A d \in Selected : th[d].pc = "done" /\ th[d].initialized
    /\ \E d \in Selected : pause_events[d]

\* C27: whenever the coordinator has left its control loop with sessions
\* started and is joining their threads, the shared stop signal is set.
C27_StopBeforeJoin ==
    (co.pc = "join" /\ Len(co.threads) > 0) => stop_event

\* C28: the shared stop signal changes only in a step of the coordinator, and
\* a pause signal changes only in a step of the coordinator's operator-input
\* handler; no step of a session thread changes either.
C28_SignalsWrittenByCoordinator ==
    [][ /\ stop_event' # stop_event => co' # co
        /\ pause_events' # pause_events => (co.pc = "input" /\ co' # co)
      ]_vars

\* the step in which session d, on the frame it holds, sets a pause signal
DetectionPause(d) ==
    /\ th[d].pc = "y_decide" /\ th'[d] # th[d]
    /\ pause_events' # pause_events

\* C29: a session that detects 'lose', or 'notupo' with the gate armed, sets
\* the pause signal of its own device only: the stop signal, the pause signals
\* of the other devices and the other sessions are left as they are.
C29_PausesOnlyItself ==
    [][\A d \in DeviceIds :
          DetectionPause(d) =>
            /\ pause_events'[d]
            /\ YuhunLose(th[d].screen)
                 \/ ( /\ th[d].check_notupo_after_button10
                      /\ find_template("notupo", th[d].screen) )
            /\ stop_event' = stop_event
            /\ \A e \in DeviceIds \ {d} :
                  pause_events'[e] = pause_events[e] /\ th'[e] = th[e]]_vars

\* one session of a fleet has just paused itself on 'lose'; the other one,
\* not paused and not stopped, is dispatching a tap
C29_Witness ==
    \E d \in Selected : \E e \in Selected \ {d} :
        /\ pause_events[d] /\ th[d].pc = "loop" /\ YuhunLose(th[d].screen)
        /\ ~pause_events[e] /\ ~stop_event
        /\ th[e].pc = "y_tap" /\ th[e].target = "button10"
        /\ th[e].tick_start >= th[d].tick_start

\* C30: no tap is dispatched on the terminal control 'lose' or on the gate
\* control 'notupo', whatever the template set lists.
C30_NoTapOnLoseOrNotupo ==
    [][\A d \in DeviceIds :
          TapStep(d) => th[d].target \notin {"lose", "notupo"}]_vars

\* C31: the Baigui tick in which the fifth capture in a row fails sets the
\* session's pause signal, and a successful capture resets consecutive_errors.
C31_PauseOnFifthFailure ==
    [][\A d \in DeviceIds :
          /\ ( /\ th[d].pc = "b_top"
               /\ th[d].consecutive_errors = max_consecutive_errors - 1
               /\ th'[d].consecutive_errors = max_consecutive_errors )
             => pause_events'[d]
          /\ (th[d].pc = "b_read" /\ th'[d].pc = "b_decide")
             => th'[d].consecutive_errors = 0]_vars

\* the step of session d in which run_once switches the device on the timer
TimerSwitchStep(d) ==
    /\ th[d].pc \in {"y_top", "b_top"} /\ th'[d] # th[d]
    /\ last_device_switch_time' # last_device_switch_time

\* C32: a timer-driven device switch happens only when at least
\* switch_interval has elapsed since the previous switch or, if there was
\* none, since the session started.
C32_SwitchAfterInterval ==
    [][\A d \in DeviceIds :
          TimerSwitchStep(d) =>
            now - (IF last_device_switch_time = 0 THEN th[d].start_time
                   ELSE last_device_switch_time) >= switch_interval]_vars

\* the index of a device in the list, counted from 0
IndexIn(devs, device_id) ==
    (CHOOSE i \in 1..Len(devs) : devs[i] = device_id) - 1

\* C33: with n > 1 devices and the active device at index i, switch_device
\* makes the device at index (i + 1) mod n the active one, so that n
\* consecutive switches restore the original device; with zero or one device
\* the active device is left unchanged.
C33_CyclicSwitch ==
    [][LET n == Len(cfg.devices) IN
       IF n <= 1
       THEN active_device' = active_device
       ELSE /\ IndexIn(cfg.devices, active_device') =
                 (IndexIn(cfg.devices, active_device) + 1) % n
            /\ (now' - switch_interval) % n = 0
                 => active_device' = cfg.active_device]_vars

\* three switches over three devices have been made, back on the first device
C33_Witness ==
    /\ Len(cfg.devices) = MaxDevices
    /\ Switches = Len(cfg.devices)
    /\ active_device = cfg.active_device
    /\ last_device_switch_time = now - 1

\* C34: with more than one device selected, when the handling of one 'd' key
\* press is over the active device is another one than at the key press.
C34_DKeyChangesDevice ==
    [][(co.pc = "switch" /\ co'.pc = "loop") => active_device' # co.before]_vars

\* C35: one 'q' key press leaves all selected devices in the same pause
\* state, resumed if every one was paused before the press and paused
\* otherwise; two presses in a row restore the pause states only if these
\* were all equal.  A poll of the keyboard changes the pause signals in this
\* way, toggles one of them, or leaves them alone.
C35_QKeyEqualises ==
    [][(co.pc = "input" /\ co' # co) =>
         LET q == q_key(pause_events) IN
         /\ \A d, e \in Selected : q[d] = q[e]
         /\ \A d \in Selected : q[d] = ~(\A e \in Selected : pause_events[e])
         /\ (\A d \in Selected : q_key(q)[d] = pause_events[d])
               => (\A d, e \in Selected : pause_events[d] = pause_events[e])
         /\ \/ pause_events' \in {pause_events, q}
            \/ \E d \in Selected :
                 pause_events' = [pause_events EXCEPT ![d] = ~@]]_vars

\* both devices of a fleet are paused after the first poll of the keyboard
C35_Witness ==
    /\ Len(cfg.selected_devices) = 2
    /\ \A d \in Selected : pause_events[d]
    /\ co.pc = "loop" /\ now = switch_interval /\ co.wake = now + 1

\* the step in which a legacy session recognizes notupo with the gate armed
LegacyNotupoStep(d) ==
    /\ th[d].pc = "l_decide" /\ th'[d] # th[d]
    /\ ~LegacyFind("lose", th[d].screen)
    /\ th[d].check_notupo_after_button10
    /\ LegacyFind("notupo", th[d].screen)

\* C36: when a legacy session recognizes notupo after a button10 click the
\* stop signal is set, and no tap is dispatched once the stop signal is set.
C36_NotupoStopsScript ==
    [][\A d \in DeviceIds :
          /\ LegacyNotupoStep(d) => stop_event'
          /\ (th[d].pc = "l_tap" /\ th'[d].delivered > th[d].delivered)
                => ~stop_event]_vars

\* C37: last_button_clicked is None or the name of a control, it becomes the
\* tapped control's name in the step that delivers a tap through
\* click_button, and no other step, a failed tap included, changes it.
C37_LastButtonClicked ==
    [][\A d \in DeviceIds :
          /\ th'[d].last_button_clicked \in {NoButton} \cup Controls
          /\ IF TapStep(d)
             THEN th'[d].last_button_clicked = th[d].target
             ELSE th'[d].last_button_clicked = th[d].last_button_clicked]_vars

\* a tap of one control has failed in this call while last_button_clicked
\* names another control, tapped in an earlier call
C37_Witness ==
    \E d \in DeviceIds :
        /\ th[d].pc = "y_top" /\ th[d].delivered = 0
        /\ th[d].target # NoButton
        /\ th[d].last_button_clicked \notin {NoButton, th[d].target}

\* the positions of a session between two run_once calls or at the top of one
IdlePcs == {"loop", "pause_check", "y_top"}

\* C38: the step in which a Yuhun session detects 'lose' leaves it paused in
\* the thread loop; while its pause signal is set the session stays between
\* calls, capturing and tapping nothing; only a key press clears the pause
\* signal; and the paused session still terminates at stop or deadline.
C38_LosePauseHolds ==
    /\ [][\A d \in DeviceIds :
            /\ ( /\ th[d].pc = "y_decide" /\ th'[d] # th[d]
                 /\ ~th'[d].fault /\ YuhunLose(th[d].screen) )
               => (pause_events'[d] /\ th'[d].pc = "loop"
                   /\ th'[d].delivered = th[d].delivered)
            /\ ( /\ cfg.module = "yuhun" /\ pause_events[d]
                 /\ th[d].pc \in IdlePcs )
               => /\ th'[d].pc \in IdlePcs \cup {"finally"}
                  /\ th'[d].delivered <= th[d].delivered
                  /\ ~CaptureStep(d)
            /\ (pause_events[d] /\ ~pause_events'[d])
               => (co.pc = "input" /\ co'.pc = "loop")]_vars
    /\ \A d \in DeviceIds :
          (Live(d) /\ pause_events[d] /\ (stop_event \/ now >= th[d].end_time))
             ~> (th[d].pc = "done")

\* with no key polled yet, a Yuhun session has paused itself on 'lose', has
\* since found its pause signal set and is in the sleep of the thread loop
C38_Witness ==
    \E d \in DeviceIds :
        /\ cfg.module = "yuhun" /\ co.pc = "start"
        /\ pause_events[d] /\ ~stop_event
        /\ th[d].pc = "loop" /\ th[d].wake = now + 1
        /\ th[d].screen = BlankFrame

\* a step of session d that sends the exploratory tap to the device
ExploreStep(d) ==
    th[d].pc = "b_random" /\ th'[d].delivered = th[d].delivered + 1

\* C39: BaiguiModule goes for the exploratory tap only from the decision of a
\* tick whose detection returned the empty list and of whose budget less than
\* 80% has elapsed, never after a control matched, whether or not that
\* control's tap was delivered; the tap lands within 100 pixels of the centre
\* of the frame on each axis.
C39_ExploreOnlyWhenIdle ==
    [][\A d \in DeviceIds :
          /\ (th'[d].pc = "b_random" /\ th[d].pc # "b_random")
                => /\ th[d].pc = "b_decide"
                   /\ detect_all_buttons(th[d].screen, cfg.template_sets) = <<>>
                   /\ 10 * (now - th[d].tick_start) < 8 * max_single_run_time
          /\ th'[d].tap_at # th[d].tap_at /\ th'[d].tap_at # NoPoint
                => ExploreStep(d)
          /\ ExploreStep(d)
                => /\ cfg.module = "baigui"
                   /\ detect_all_buttons(th[d].screen, cfg.template_sets) = <<>>
                   /\ th[d].delivered = 0
                   /\ LET x == th'[d].tap_at[1]
                          y == th'[d].tap_at[2]
                          center_x == FrameShape.screen_w \div 2
                          center_y == FrameShape.screen_h \div 2
                      IN  /\ x - center_x \in -100..100
                          /\ y - center_y \in -100..100]_vars

\* an exploratory tap delivered at a corner of the region, three units into a
\* tick on a frame without candidates
C39_Witness ==
    \E d \in DeviceIds :
        /\ cfg.module = "baigui" /\ th[d].pc = "loop"
        /\ th[d].delivered = 1 /\ th[d].first_delivered = NoButton
        /\ th[d].tap_at = <<FrameShape.screen_w \div 2 + 100,
                            FrameShape.screen_h \div 2 - 100>>
        /\ now - th[d].tick_start = 3

====
